---- MODULE Spec2Model ----
(***************************************************************************)
(* A model of simdat's OpenFace demo (examples/openface_demo.py: the DEMO  *)
(* object, its act_* actions and main) and of two pure functions of        *)
(* core/dp_models.py (ImageNet.find_topk, DP.extract_hypercolumn).         *)
(*                                                                         *)
(* Probabilities and thresholds are counted in tenths (0.4 is 4); Python   *)
(* indices are kept 0-based, so element k of a Python list is element      *)
(* k + 1 of the sequence that models it.  Python's None is a field         *)
(* none |-> TRUE of the record that models the value.                      *)
(***************************************************************************)
EXTENDS Integers, Sequences, FiniteSets, TLC

VARIABLES
    ml,          \* DEMO.ml: the classifier wrapper
    classifier,  \* DEMO.classifier: the recorded kind
    dbs,         \* DEMO.dbs: the representation dbs
    lastMethod,  \* history: the argument of the last set_classifier call
    pkls,        \* the pickle files that exist on disk
    pc,          \* "idle" | "exited" | inside act_test: "test" (the head of
                 \* its loop), "count" (ml.test returned), "counted"
    exitcode,    \* the process' exit status once pc = "exited"
    err,         \* which fatal check ended the process
    act,         \* the operation that ran last (or is running)
    calls,       \* calls made into self.ml by that operation
    out,         \* lines printed by that operation
    loc,         \* act_test's local variables
    mainpc,      \* main's position ("api": the object is driven directly)
    args,        \* main's parsed command line
    topk,        \* find_topk: its inputs and result
    hc           \* extract_hypercolumn: its inputs and result

vars == <<ml, classifier, dbs, lastMethod, pkls, pc, exitcode, err, act,
          calls, out, loc, mainpc, args, topk, hc>>

----------------------------------------------------------------------------
(* Bounds of the model *)

MaxCases == 4
MaxPreds == 2
MaxItems == 1
MaxK == 3
MaxCh == 2
MaxSel == 2

None == "None"

(* The classes a test case or a prediction can carry. *)
Classes == {0, 1}

(* predict_proba rows over Classes, in tenths: class 1 wins, a tie, class 0 wins. *)
ProbVecs == {<<2, 8>>, <<5, 5>>, <<8, 2>>}

(* -p/--pcut values in tenths: the default 0.4 and 0.8. *)
Thresholds == {4, 8}

Methods == {"RF", "Neighbors", "SVC", "rf"}

Roots == {"./", "models/"}

MatchedOuts == {"/www/experiments/"}

Dates == {[y |-> 2016, m |-> 3, d |-> 9], [y |-> 2016, m |-> 11, d |-> 24]}

DbPaths == {"/www/database/db/", "empty/"}

ModelFiles == {"./SVC.pkl", "./RF.pkl", "models/Neighbors.pkl"}

----------------------------------------------------------------------------
(* DEMO's fields *)

NoWrapper == [none |-> TRUE, cls |-> None, pfs |-> <<>>]

RFRun == [none |-> FALSE, cls |-> "RFRun", pfs |-> <<"ml.json">>]

NeighborsRun == [none |-> FALSE, cls |-> "NeighborsRun", pfs |-> <<"ml.json">>]

SVMRun == [none |-> FALSE, cls |-> "SVMRun", pfs |-> <<"ml.json">>]

NoDbs == [none |-> TRUE, files |-> <<>>]

NoLoc == [thre |-> 0, model |-> "", n |-> 0, new_home |-> "", i |-> 0,
          match |-> 0, nwrong |-> 0, cat |-> 0,
          r1 |-> [prob_none |-> TRUE, prob |-> <<>>, predicted |-> <<>>],
          found |-> FALSE, mis_match |-> FALSE, patched |-> <<>>]

NoArgs == [action |-> "", classifier |-> "", pcut |-> 0, model_path |-> "",
           dbpath |-> ""]

NoTopk == [pc |-> "off"]

NoHc == [pc |-> "off"]

(* set_classifier with a case-insensitive comparison of the method name. *)
set_classifier_nocase(method) ==
    IF method \in {"RF", "rf"}
    THEN [ml |-> RFRun, classifier |-> "RF"]
    ELSE IF method \in {"Neighbors", "neighbors"}
         THEN [ml |-> NeighborsRun, classifier |-> "Neighbors"]
         ELSE [ml |-> SVMRun, classifier |-> "SVC"]

(* set_classifier recording the method as given in its last branch. *)
set_classifier_as_given(method) ==
    IF method = "RF"
    THEN [ml |-> RFRun, classifier |-> method]
    ELSE IF method = "Neighbors"
         THEN [ml |-> NeighborsRun, classifier |-> method]
         ELSE [ml |-> SVMRun, classifier |-> method]

(* DEMO.set_classifier: the two fields it writes. *)
set_classifier(method) ==
    IF method = "RF"
    THEN [ml |-> RFRun, classifier |-> method]
    ELSE IF method = "Neighbors"
         THEN [ml |-> NeighborsRun, classifier |-> method]
         ELSE [ml |-> SVMRun, classifier |-> "SVC"]

(* io.find_files(dir_path, suffix='json'): the json files under a directory. *)
find_files(dir_path) ==
    IF dir_path = "/www/database/db/" THEN <<"a.json", "b.json">> ELSE <<>>

(* DEMO.set_dbs: the value it writes to self.dbs. *)
set_dbs(dbpath) == [none |-> FALSE, files |-> find_files(dbpath)]

(* io.check_exist(path) *)
check_exist(path) == path \in pkls

(* DEMO._check_dbs: TRUE when it lets the caller go on. *)
check_dbs_ok == ~(dbs.none \/ Len(dbs.files) = 0)

(* DEMO._check_classifier: TRUE when it lets the caller go on. *)
check_classifier_ok == ~ml.none

ErrDbs ==
    "[openface_demo] Error: No db is found. Make sure self.set_dbs(dbpath) ran properly"

ErrClassifier ==
    "[openface_demo] Error: No db is found. Make sure self.set_classifier(method=$METHOD) ran properly"

ErrModel(mpath) == "[openface_demo] Error: " \o mpath \o " does not exist."

(* What an operation leaves behind: status "exit" (sys.exit or an uncaught
   exception), "return", or "loop" (act_test entering its loop). *)
Outcome(status, code, why, cs, lines) ==
    [status |-> status, code |-> code, err |-> why, calls |-> cs, out |-> lines]

(* The path read_model builds: root + self.classifier + '.pkl'. *)
model_path(root) == root \o classifier \o ".pkl"

(* read_model without the check that the pickle file exists. *)
read_model_nocheck(root, lines) ==
    IF ~check_classifier_ok
    THEN Outcome("exit", 1, "classifier", <<>>, Append(lines, ErrClassifier))
    ELSE Outcome("return", 0, "",
                 <<[fn |-> "read_model", wrapper |-> ml.cls,
                    model |-> model_path(root)]>>, lines)

(* DEMO.read_model up to the wrapper's read_model call. *)
read_model(root, lines) ==
    IF ~check_classifier_ok
    THEN Outcome("exit", 1, "classifier", <<>>, Append(lines, ErrClassifier))
    ELSE IF ~check_exist(model_path(root))
         THEN Outcome("exit", 1, "model", <<>>,
                      Append(lines, ErrModel(model_path(root))))
         ELSE Outcome("return", 0, "",
                      <<[fn |-> "read_model", wrapper |-> ml.cls,
                         model |-> model_path(root)]>>, lines)

----------------------------------------------------------------------------
(* Formatting *)

Digit == <<"0", "1", "2", "3", "4", "5", "6", "7", "8", "9">>

RECURSIVE NatStr(_)
(* '%i' % n for n >= 0 *)
NatStr(n) == IF n < 10 THEN Digit[n + 1] ELSE NatStr(n \div 10) \o Digit[(n % 10) + 1]

(* A width-2 zero-padded field of strftime (%m, %d). *)
Pad2(n) == Digit[((n \div 10) % 10) + 1] \o Digit[(n % 10) + 1]

(* date.strftime("%Y%m%d") *)
strftime(date) == NatStr(date.y) \o Pad2(date.m) \o Pad2(date.d)

(* n/d to the nearest hundredth, ties to even: what '%.2f' prints for the
   double n/d (a tie k/200 is an exact double only for eighths, which is
   where ties happen for d < 40). *)
Hundredths(n, d) ==
    LET q == (100 * n) \div d
        r == (100 * n) % d
    IN  IF 2 * r < d THEN q
        ELSE IF 2 * r > d THEN q + 1
        ELSE IF q % 2 = 0 THEN q ELSE q + 1

(* '%.2f' % (float(n) / float(d)), d > 0 *)
Fmt2(n, d) ==
    LET h == Hundredths(n, d)
    IN  NatStr(h \div 100) \o "." \o Pad2(h % 100)

----------------------------------------------------------------------------
(* The actions of DEMO, as the outcome each leaves *)

(* DEMO.act_train *)
act_train ==
    IF ~check_classifier_ok
    THEN Outcome("exit", 1, "classifier", <<>>, <<ErrClassifier>>)
    ELSE IF ~check_dbs_ok
         THEN Outcome("exit", 1, "dbs", <<>>, <<ErrDbs>>)
         ELSE Outcome("return", 0, "",
                      <<[fn |-> "run", wrapper |-> ml.cls, model |-> ""]>>, <<>>)

(* DEMO.act_reps: find the images, write ./result.json, return the reps. *)
act_reps == Outcome("return", 0, "", <<>>, <<>>)

(* The mapping file: class token -> class (token k + 1 maps to class k). *)
Mapping == <<"alice", "bob">>

RECURSIVE pca_labels(_, _)
(* act_pca's loop over mapping.keys(): the classes with rows in the table. *)
pca_labels(k, present) ==
    IF k > Len(Mapping) THEN <<>>
    ELSE IF Mapping[k] \in present
         THEN <<Mapping[k]>> \o pca_labels(k + 1, present)
         ELSE pca_labels(k + 1, present)

RECURSIVE Join(_)
Join(s) == IF s = <<>> THEN "" ELSE s[1] \o " " \o Join(Tail(s))

(* DEMO.act_pca: present are the classes that have rows in the picked table. *)
act_pca(ncomp, present) ==
    LET lines == <<"[openface_demo] ncomp = " \o NatStr(ncomp)>>
    IN  IF ~check_dbs_ok
        THEN Outcome("exit", 1, "dbs", <<>>, Append(lines, ErrDbs))
        ELSE Outcome("return", 0, "", <<>>,
                     Append(lines,
                            (IF ncomp = 1 THEN "plot_1D_dists: "
                                          ELSE "plot_classes: ")
                            \o Join(pca_labels(1, present))))

RECURSIVE predict_loop(_, _, _)
(* act_predict's loop: one ml.predict call and two printed lines per item. *)
predict_loop(preds, k, o) ==
    IF k > Len(preds) THEN o
    ELSE predict_loop(preds, k + 1,
            [o EXCEPT
               !.calls = Append(@, [fn |-> "predict", wrapper |-> ml.cls,
                                    model |-> o.calls[1].model]),
               !.out = @ \o <<"[openface_demo] Parsing img" \o NatStr(k),
                              Mapping[preds[k] + 1]>>])

(* DEMO.act_predict: preds are the classes ml.predict returns, per image. *)
act_predict(root, preds) ==
    LET o == read_model(root, <<>>)
    IN  IF o.status = "exit" THEN o ELSE predict_loop(preds, 1, o)

(* act_test checking the dbs only after the first ml.test call. *)
act_test_begin_late(thre, root) ==
    LET lines == <<"[openface_demo] Threshold applied " \o Fmt2(thre, 10)>>
        o == read_model(root, lines)
    IN  IF o.status = "exit" THEN o
        ELSE IF ~check_dbs_ok
             THEN Outcome("exit", 1, "dbs",
                          Append(o.calls, [fn |-> "test", wrapper |-> ml.cls,
                                           model |-> o.calls[1].model]),
                          Append(lines, ErrDbs))
             ELSE Outcome("loop", 0, "", o.calls, lines)

(* DEMO.act_test up to its loop: the threshold line, read_model, _pick_imgs. *)
act_test_begin(thre, root) ==
    LET lines == <<"[openface_demo] Threshold applied " \o Fmt2(thre, 10)>>
        o == read_model(root, lines)
    IN  IF o.status = "exit" THEN o
        ELSE IF ~check_dbs_ok
             THEN Outcome("exit", 1, "dbs", o.calls, Append(lines, ErrDbs))
             ELSE Outcome("loop", 0, "", o.calls, lines)

----------------------------------------------------------------------------
(* act_test's loop body *)

SeqsUpTo(S, n) == UNION {[1..k -> S] : k \in 0..n}

RECURSIVE PyMax(_, _, _)
(* max(prob): scan from 0-based index k with the best value so far. *)
PyMax(prob, k, best) ==
    IF k >= Len(prob) THEN best
    ELSE PyMax(prob, k + 1, IF prob[k + 1] > best THEN prob[k + 1] ELSE best)

RECURSIVE argmax_from(_, _, _)
(* prob.argmax(): the first 0-based index holding the maximum. *)
argmax_from(prob, k, besti) ==
    IF k >= Len(prob) THEN besti
    ELSE argmax_from(prob, k + 1,
                     IF prob[k + 1] > prob[besti + 1] THEN k ELSE besti)

argmax(prob) == argmax_from(prob, 1, 0)

(* What ml.test can return for one case: no probabilities and a list of
   predicted labels, or one probability row per face. *)
TestResults ==
    {[prob_none |-> TRUE, prob |-> <<>>, predicted |-> ps] :
        ps \in SeqsUpTo(Classes, MaxPreds)}
    \cup
    {[prob_none |-> FALSE, prob |-> pv,
      predicted |-> [p \in 1..Len(pv) |-> argmax(pv[p])]] :
        pv \in SeqsUpTo(ProbVecs, MaxPreds)}

(* pl.patch_rectangle_img(path, pos, <kw>=<val>) for face p of case i. *)
Patch(i, p, kw, val) == [path |-> i, pos |-> <<i, p>>, kw |-> kw, val |-> val]

RECURSIVE no_prob_loop_mis(_, _, _, _)
(* The no-probability loop counting a different label as a mismatch. *)
no_prob_loop_mis(l, p, cat, st) ==
    IF p >= Len(l.r1.predicted) THEN st
    ELSE no_prob_loop_mis(l, p + 1, cat,
            IF cat = l.r1.predicted[p + 1]
            THEN [st EXCEPT !.found = TRUE,
                            !.patched = Append(@, Patch(l.i, p, "new_name", None))]
            ELSE [st EXCEPT !.mis_match = TRUE])

RECURSIVE no_prob_loop(_, _, _, _)
(* The loop over r1['predicted'] from 0-based p; st is (found, mis_match, patched). *)
no_prob_loop(l, p, cat, st) ==
    IF p >= Len(l.r1.predicted) THEN st
    ELSE no_prob_loop(l, p + 1, cat,
            IF cat = l.r1.predicted[p + 1]
            THEN [st EXCEPT !.found = TRUE,
                            !.patched = Append(@, Patch(l.i, p, "new_name", None))]
            ELSE st)

RECURSIVE prob_loop_ge(_, _, _, _)
(* The probability loop with the threshold test written vmax >= thre. *)
prob_loop_ge(l, p, cat, st) ==
    IF p >= Len(l.r1.prob) THEN st
    ELSE LET prob == l.r1.prob[p + 1]
             vmax == PyMax(prob, 1, prob[1])
             imax == argmax(prob)
         IN  prob_loop_ge(l, p + 1, cat,
                IF vmax >= l.thre
                THEN IF imax = cat
                     THEN [st EXCEPT !.found = TRUE,
                             !.patched = Append(@, Patch(l.i, p, "new_home", l.new_home))]
                     ELSE [st EXCEPT !.mis_match = TRUE]
                ELSE st)

RECURSIVE prob_loop(_, _, _, _)
(* The loop over r1['prob'] from 0-based p. *)
prob_loop(l, p, cat, st) ==
    IF p >= Len(l.r1.prob) THEN st
    ELSE LET prob == l.r1.prob[p + 1]
             vmax == PyMax(prob, 1, prob[1])
             imax == argmax(prob)
         IN  prob_loop(l, p + 1, cat,
                IF vmax > l.thre
                THEN IF imax = cat
                     THEN [st EXCEPT !.found = TRUE,
                             !.patched = Append(@, Patch(l.i, p, "new_home", l.new_home))]
                     ELSE [st EXCEPT !.mis_match = TRUE]
                ELSE st)

(* The loop body counting every matched face rather than the case. *)
test_case_per_face(l) ==
    LET st0 == [found |-> FALSE, mis_match |-> FALSE, patched |-> <<>>]
        st == IF l.r1.prob_none THEN no_prob_loop(l, 0, l.cat, st0)
                                ELSE prob_loop(l, 0, l.cat, st0)
    IN  [l EXCEPT !.found = st.found, !.mis_match = st.mis_match,
                  !.patched = st.patched,
                  !.match = @ + Len(st.patched),
                  !.nwrong = IF st.mis_match THEN @ + 1 ELSE @]

(* The body of act_test's loop after ml.test returned: l are the locals
   (l.i the 0-based case, l.r1 what ml.test returned, l.cat the truth). *)
test_case(l) ==
    LET st0 == [found |-> FALSE, mis_match |-> FALSE, patched |-> <<>>]
        st == IF l.r1.prob_none THEN no_prob_loop(l, 0, l.cat, st0)
                                ELSE prob_loop(l, 0, l.cat, st0)
    IN  [l EXCEPT !.found = st.found, !.mis_match = st.mis_match,
                  !.patched = st.patched,
                  !.match = IF st.found THEN @ + 1 ELSE @,
                  !.nwrong = IF st.mis_match THEN @ + 1 ELSE @]

(* The try block with the two prints in the other order. *)
metric_lines_swapped(match, nwrong, n) ==
    IF match + nwrong = 0 THEN <<>>
    ELSE LET precision ==
                 <<"[openface_demo] Precision = " \o Fmt2(match, match + nwrong)>>
         IN  IF n = 0 THEN precision
             ELSE <<"[openface_demo] Recall = " \o Fmt2(match, n)>> \o precision

(* The try block after the loop: the first division by zero skips the rest. *)
metric_lines(match, nwrong, n) ==
    IF n = 0 THEN <<>>
    ELSE LET recall == <<"[openface_demo] Recall = " \o Fmt2(match, n)>>
         IN  IF match + nwrong = 0 THEN recall
             ELSE Append(recall,
                         "[openface_demo] Precision = " \o Fmt2(match, match + nwrong))

(* What act_test prints after its loop. *)
test_report(l) ==
    Append(metric_lines(l.match, l.nwrong, l.n),
           "[openface_demo] Images with roi are saved to " \o l.new_home)

----------------------------------------------------------------------------
(* The DEMO object driven call by call *)

(* DEMO.of_init, with a file system and no command line. *)
Init ==
    /\ ml = NoWrapper
    /\ classifier = None
    /\ dbs = NoDbs
    /\ lastMethod = None
    /\ pkls \in SUBSET ModelFiles
    /\ pc = "idle"
    /\ exitcode = 0
    /\ err = ""
    /\ act = "of_init"
    /\ calls = <<>>
    /\ out = <<>>
    /\ loc = NoLoc
    /\ mainpc = "api"
    /\ args = NoArgs
    /\ topk = NoTopk
    /\ hc = NoHc

(* An operation ends with outcome o: the process exits, or the call returns
   (to the caller of the object, or to main, which then ends with status 0),
   or act_test goes into its loop. *)
Finish(name, o) ==
    /\ act' = name
    /\ calls' = o.calls
    /\ out' = o.out
    /\ err' = o.err
    /\ IF o.status = "exit" THEN pc' = "exited" /\ exitcode' = o.code
       ELSE IF o.status = "loop" THEN pc' = "test" /\ exitcode' = exitcode
       ELSE IF mainpc = "api" THEN pc' = "idle" /\ exitcode' = exitcode
       ELSE pc' = "exited" /\ exitcode' = 0

(* An action other than act_test runs from its call to its end. *)
Run(name, o) ==
    /\ Finish(name, o)
    /\ loc' = NoLoc
    /\ UNCHANGED <<ml, classifier, dbs, lastMethod, pkls, args, topk, hc>>

(* act_test from its call to the head of its loop: n cases were read, today
   is date.today(). *)
test_start(thre, root, matched_out, today, n) ==
    LET o == act_test_begin(thre, root)
    IN  /\ Finish("test", o)
        /\ loc' = IF o.status = "loop"
                  THEN [NoLoc EXCEPT !.thre = thre, !.model = o.calls[1].model,
                                     !.n = n,
                                     !.new_home = matched_out \o strftime(today)]
                  ELSE NoLoc
        /\ UNCHANGED <<ml, classifier, dbs, lastMethod, pkls, args, topk, hc>>

SetClassifier ==
    /\ pc = "idle"
    /\ \E method \in Methods :
          /\ ml' = set_classifier(method).ml
          /\ classifier' = set_classifier(method).classifier
          /\ lastMethod' = method
    /\ act' = "set_classifier"
    /\ calls' = <<>>
    /\ out' = <<>>
    /\ UNCHANGED <<dbs, pkls, pc, exitcode, err, loc, mainpc, args, topk, hc>>

SetDbs ==
    /\ pc = "idle"
    /\ \E dbpath \in DbPaths : dbs' = set_dbs(dbpath)
    /\ act' = "set_dbs"
    /\ calls' = <<>>
    /\ out' = <<>>
    /\ UNCHANGED <<ml, classifier, lastMethod, pkls, pc, exitcode, err, loc,
                   mainpc, args, topk, hc>>

ActReps == pc = "idle" /\ Run("reps", act_reps) /\ UNCHANGED mainpc

ActTrain == pc = "idle" /\ Run("train", act_train) /\ UNCHANGED mainpc

ActPca ==
    /\ pc = "idle"
    /\ \E ncomp \in {1, 2}, present \in SUBSET {Mapping[k] : k \in 1..Len(Mapping)} :
          Run("pca", act_pca(ncomp, present))
    /\ UNCHANGED mainpc

ActPredict ==
    /\ pc = "idle"
    /\ \E root \in Roots, preds \in SeqsUpTo(Classes, MaxItems) :
          Run("predict", act_predict(root, preds))
    /\ UNCHANGED mainpc

ActTest ==
    /\ pc = "idle"
    /\ \E thre \in Thresholds, root \in Roots, matched_out \in MatchedOuts,
          today \in Dates, n \in 0..MaxCases :
          test_start(thre, root, matched_out, today, n)
    /\ UNCHANGED mainpc

(* The loop takes case loc.i: ml.test returns r1, cat is the case's truth. *)
TestCall ==
    /\ pc = "test"
    /\ loc.i < loc.n
    /\ \E cat \in Classes, r1 \in TestResults :
          loc' = [loc EXCEPT !.cat = cat, !.r1 = r1]
    /\ calls' = Append(calls, [fn |-> "test", wrapper |-> ml.cls,
                               model |-> loc.model])
    /\ pc' = "count"
    /\ UNCHANGED <<ml, classifier, dbs, lastMethod, pkls, exitcode, err,
                   act, out, mainpc, args, topk, hc>>

(* The rest of the loop body: the branch on r1['prob'] and the counters. *)
TestCount ==
    /\ pc = "count"
    /\ loc' = test_case(loc)
    /\ pc' = "counted"
    /\ UNCHANGED <<ml, classifier, dbs, lastMethod, pkls, exitcode, err,
                   act, calls, out, mainpc, args, topk, hc>>

(* Back to the head of the loop with the next i.  r1, cat, found, mis_match
   are overwritten before they are read again: the model drops their values
   here. *)
TestAdvance ==
    /\ pc = "counted"
    /\ loc' = [NoLoc EXCEPT !.thre = loc.thre, !.model = loc.model,
                            !.n = loc.n, !.new_home = loc.new_home,
                            !.i = loc.i + 1, !.match = loc.match,
                            !.nwrong = loc.nwrong]
    /\ pc' = "test"
    /\ UNCHANGED <<ml, classifier, dbs, lastMethod, pkls, exitcode, err,
                   act, calls, out, mainpc, args, topk, hc>>

(* The loop is over: the metrics, the last line, and the return. *)
TestReport ==
    /\ pc = "test"
    /\ loc.i >= loc.n
    /\ out' = out \o test_report(loc)
    /\ loc' = NoLoc
    /\ IF mainpc = "api" THEN pc' = "idle" /\ exitcode' = exitcode
                         ELSE pc' = "exited" /\ exitcode' = 0
    /\ UNCHANGED <<ml, classifier, dbs, lastMethod, pkls, err, act, calls,
                   mainpc, args, topk, hc>>

Next ==
    \/ SetClassifier
    \/ SetDbs
    \/ ActReps
    \/ ActTrain
    \/ ActPca
    \/ ActPredict
    \/ ActTest
    \/ TestCall
    \/ TestCount
    \/ TestAdvance
    \/ TestReport

Spec == Init /\ [][Next]_vars

----------------------------------------------------------------------------
(* main: the command line *)

CliActions == {"rep", "train", "test", "predict", "pca", "reps"}

(* The methods DEMO itself defines that getattr(demo, 'act_' + action) can find. *)
DemoMethods == {"act_reps", "act_train", "act_pca", "act_predict", "act_test"}

(* Defaults of act_test's and act_pca's keyword arguments. *)
DefaultThre == 4

DefaultNcomp == 2

(* main's if/elif chain with the train branch not setting the classifier. *)
main_parms_notrain(a) ==
    LET dflt == [thre |-> DefaultThre, model_root |-> "./",
                 matched_out |-> "/www/experiments/", ncomp |-> DefaultNcomp]
    IN  IF a.action = "rep" THEN [set |-> FALSE, parms |-> dflt]
        ELSE IF a.action = "pca" THEN [set |-> FALSE, parms |-> dflt]
        ELSE IF a.action = "predict"
             THEN [set |-> TRUE,
                   parms |-> [dflt EXCEPT !.model_root = a.model_path]]
        ELSE IF a.action = "test"
             THEN [set |-> TRUE,
                   parms |-> [dflt EXCEPT !.thre = a.pcut,
                                          !.model_root = a.model_path]]
        ELSE [set |-> FALSE, parms |-> dflt]

(* main's if/elif chain on args.action: whether set_classifier is called,
   and the keyword arguments the action will get (defaults filled in). *)
main_parms(a) ==
    LET dflt == [thre |-> DefaultThre, model_root |-> "./",
                 matched_out |-> "/www/experiments/", ncomp |-> DefaultNcomp]
    IN  IF a.action = "rep" THEN [set |-> FALSE, parms |-> dflt]
        ELSE IF a.action = "pca" THEN [set |-> FALSE, parms |-> dflt]
        ELSE IF a.action = "predict"
             THEN [set |-> TRUE,
                   parms |-> [dflt EXCEPT !.model_root = a.model_path]]
        ELSE IF a.action = "test"
             THEN [set |-> TRUE,
                   parms |-> [dflt EXCEPT !.thre = a.pcut,
                                          !.model_root = a.model_path]]
        ELSE IF a.action = "train" THEN [set |-> TRUE, parms |-> dflt]
        ELSE [set |-> FALSE, parms |-> dflt]

(* The state after parse_args and DEMO(pfs). *)
InitMain ==
    /\ ml = NoWrapper
    /\ classifier = None
    /\ dbs = NoDbs
    /\ lastMethod = None
    /\ pkls \in SUBSET ModelFiles
    /\ pc = "idle"
    /\ exitcode = 0
    /\ err = ""
    /\ act = "of_init"
    /\ calls = <<>>
    /\ out = <<>>
    /\ loc = NoLoc
    /\ mainpc = "start"
    /\ args \in [action : CliActions, classifier : Methods, pcut : Thresholds,
                 model_path : Roots, dbpath : DbPaths]
    /\ topk = NoTopk
    /\ hc = NoHc

(* demo.set_dbs(args.dbpath) *)
MainSetDbs ==
    /\ mainpc = "start"
    /\ dbs' = set_dbs(args.dbpath)
    /\ act' = "set_dbs"
    /\ mainpc' = "dbs_set"
    /\ UNCHANGED <<ml, classifier, lastMethod, pkls, pc, exitcode, err, calls,
                   out, loc, args, topk, hc>>

(* The if/elif chain: set_classifier(args.classifier) where it is called. *)
MainParms ==
    /\ mainpc = "dbs_set"
    /\ IF main_parms(args).set
       THEN /\ ml' = set_classifier(args.classifier).ml
            /\ classifier' = set_classifier(args.classifier).classifier
            /\ lastMethod' = args.classifier
            /\ act' = "set_classifier"
       ELSE UNCHANGED <<ml, classifier, lastMethod, act>>
    /\ mainpc' = "ready"
    /\ UNCHANGED <<dbs, pkls, pc, exitcode, err, calls, out, loc, args, topk, hc>>

(* getattr(demo, 'act_' + args.action) called with parms.  A name DEMO does not define
   itself is looked up in its parent class oftools.OpenFace: the call raises
   AttributeError, or runs whatever the parent defines. *)
MainDispatch ==
    /\ mainpc = "ready"
    /\ mainpc' = "dispatched"
    /\ LET name == "act_" \o args.action
           parms == main_parms(args).parms
       IN  IF name = "act_train" THEN Run("train", act_train)
           ELSE IF name = "act_reps" THEN Run("reps", act_reps)
           ELSE IF name = "act_pca"
                THEN \E present \in SUBSET {Mapping[k] : k \in 1..Len(Mapping)} :
                         Run("pca", act_pca(parms.ncomp, present))
           ELSE IF name = "act_predict"
                THEN \E preds \in SeqsUpTo(Classes, MaxItems) :
                         Run("predict", act_predict(parms.model_root, preds))
           ELSE IF name = "act_test"
                THEN \E today \in Dates, n \in 0..MaxCases :
                         test_start(parms.thre, parms.model_root,
                                    parms.matched_out, today, n)
           ELSE \/ Run(args.action, Outcome("exit", 1, "attribute", <<>>, <<>>))
                \/ Run(args.action, Outcome("return", 0, "", <<>>, <<>>))

NextMain ==
    \/ MainSetDbs
    \/ MainParms
    \/ MainDispatch
    \/ TestCall
    \/ TestCount
    \/ TestAdvance
    \/ TestReport

SpecMain == InitMain /\ [][NextMain]_vars

----------------------------------------------------------------------------
(* ImageNet.find_topk *)

(* The demo object while a function of dp_models.py is examined. *)
DemoOff ==
    /\ ml = NoWrapper
    /\ classifier = None
    /\ dbs = NoDbs
    /\ lastMethod = None
    /\ pkls = {}
    /\ pc = "idle"
    /\ exitcode = 0
    /\ err = ""
    /\ act = "of_init"
    /\ calls = <<>>
    /\ out = <<>>
    /\ loc = NoLoc
    /\ mainpc = "off"
    /\ args = NoArgs

(* Probabilities a vector may hold (ties included). *)
ProbValues == {1, 2, 3}

(* Line k (0-based) of synset_words.txt, as characters: 'n<k> c<k>, a<k>'. *)
LabelLine(k) ==
    <<"n", Digit[k + 1], " ", "c", Digit[k + 1], ",", " ", "a", Digit[k + 1]>>

(* str.replace(',', '') *)
StripCommas(line) == SelectSeq(line, LAMBDA c : c # ",")

RECURSIVE SplitSpaces(_, _, _)
(* str.split(' '): the tokens of line from position k, cur the token begun. *)
SplitSpaces(line, k, cur) ==
    IF k > Len(line) THEN <<cur>>
    ELSE IF line[k] = " " THEN <<cur>> \o SplitSpaces(line, k + 1, "")
    ELSE SplitSpaces(line, k + 1, cur \o line[k])

(* prob.flatten().argsort(): the index orders (0-based) that sort v ascending;
   the default sort is not stable, so equal values come in any order. *)
argsort(v) ==
    {perm \in [1..Len(v) -> 0..(Len(v) - 1)] :
        /\ \A a, b \in 1..Len(v) : a # b => perm[a] # perm[b]
        /\ \A a \in 1..(Len(v) - 1) : v[perm[a] + 1] <= v[perm[a + 1] + 1]}

RECURSIVE DownFrom(_, _, _)
(* s[start], s[start - 1], ... down to but without s[stop] (0-based). *)
DownFrom(s, start, stop) ==
    IF start <= stop THEN <<>>
    ELSE <<s[start + 1]>> \o DownFrom(s, start - 1, stop)

(* The slice taken one element short: [-1:-ntop:-1]. *)
topk_slice_short(sorted, ntop) ==
    LET len == Len(sorted)
        stop0 == -ntop
        stop1 == IF stop0 < 0 THEN stop0 + len ELSE stop0
        stop == IF stop1 < 0 THEN -1 ELSE IF stop1 >= len THEN len - 1 ELSE stop1
    IN  DownFrom(sorted, len - 1, stop)

(* sorted[-1:-(ntop+1):-1] with Python's rules for a negative step: a
   negative bound counts from the end, and one still negative means 'before
   the first element'. *)
topk_slice(sorted, ntop) ==
    LET len == Len(sorted)
        stop0 == -(ntop + 1)
        stop1 == IF stop0 < 0 THEN stop0 + len ELSE stop0
        stop == IF stop1 < 0 THEN -1 ELSE IF stop1 >= len THEN len - 1 ELSE stop1
    IN  DownFrom(sorted, len - 1, stop)

RECURSIVE topk_fill(_, _, _, _)
(* The loop 'for k in top_k: results[k] = ...' from position j: the dict is
   kept as its keys in insertion order and the value of each key. *)
topk_fill(prob, top_k, j, results) ==
    IF j > Len(top_k) THEN results
    ELSE LET k == top_k[j]
             l == SplitSpaces(StripCommas(LabelLine(k)), 1, "")
             entry == [prob |-> prob[k + 1], name |-> l[1], cats |-> Tail(l)]
         IN  topk_fill(prob, top_k, j + 1,
                [keys |-> IF \E a \in 1..Len(results.keys) : results.keys[a] = k
                          THEN results.keys ELSE Append(results.keys, k),
                 val |-> [x \in DOMAIN results.val \cup {k} |->
                             IF x = k THEN entry ELSE results.val[x]]])

RECURSIVE Ascending(_)
(* The keys of a small-int dict in the order of their hash slots. *)
Ascending(S) ==
    IF S = {} THEN <<>>
    ELSE LET m == CHOOSE x \in S : \A y \in S : x <= y
         IN  <<m>> \o Ascending(S \ {m})

(* The order in which the returned dict yields its keys: insertion order on
   an interpreter whose dicts keep it (CPython from 3.7), the order of the
   hash slots otherwise (CPython 2, which this code base is written for:
   ascending for keys below the table size). *)
dict_iter(results, build) ==
    IF build = "insertion" THEN results.keys
    ELSE Ascending({results.keys[a] : a \in 1..Len(results.keys)})

InitTopk ==
    /\ DemoOff
    /\ hc = NoHc
    /\ \E K \in 1..MaxK :
       \E prob \in [1..K -> ProbValues], ntop \in 0..(K + 1),
          labels \in {"given", "file", "nofile"} :
          topk = [pc |-> "call", prob |-> prob, ntop |-> ntop,
                  labels |-> labels, top_k |-> <<>>, keys |-> <<>>,
                  val |-> <<>>, iter |-> <<>>]

(* find_topk(prob, labels, fname, ntop): labels are given, or read from the
   label file, whose absence ends the process in get_labels. *)
FindTopk ==
    /\ topk.pc = "call"
    /\ IF topk.labels = "nofile"
       THEN topk' = [topk EXCEPT !.pc = "exited"]
       ELSE \E sorted \in argsort(topk.prob), build \in {"insertion", "hash"} :
               LET top_k == topk_slice(sorted, topk.ntop)
                   results == topk_fill(topk.prob, top_k, 1,
                                        [keys |-> <<>>, val |-> <<>>])
               IN  topk' = [topk EXCEPT !.pc = "done", !.top_k = top_k,
                                        !.keys = results.keys,
                                        !.val = results.val,
                                        !.iter = dict_iter(results, build)]
    /\ UNCHANGED <<ml, classifier, dbs, lastMethod, pkls, pc, exitcode, err,
                   act, calls, out, loc, mainpc, args, hc>>

NextTopk == FindTopk

SpecTopk == InitTopk /\ [][NextTopk]_vars

----------------------------------------------------------------------------
(* DP.extract_hypercolumn *)

(* The side of the grid every feature map is resized to. *)
HcSize == 224

(* The layers of the model: two, each with 1..MaxCh output channels. *)
NLayers == 2

(* The sides a layer's feature maps may have. *)
FmapSides == {112, 224}

(* Channel c of layer li's output for the instance: what it is, and its shape. *)
Fmap(layers, li, c) ==
    [layer |-> li, ch |-> c, h |-> layers[li + 1].side, w |-> layers[li + 1].side]

(* A resize that leaves the feature map at its own size. *)
imresize_keep(fmap) == fmap

(* sp.misc.imresize(fmap, size=(224, 224), mode="F", interp='bilinear') *)
imresize(fmap) == [fmap EXCEPT !.h = HcSize, !.w = HcSize]

RECURSIVE hc_inner(_, _, _, _)
(* for fmap in convmap[0], from channel c (0-based), where convmap is the
   output of layer li. *)
hc_inner(layers, li, c, hypercolumns) ==
    IF c >= layers[li + 1].ch THEN hypercolumns
    ELSE hc_inner(layers, li, c + 1,
                  Append(hypercolumns, imresize(Fmap(layers, li, c))))

RECURSIVE hc_outer(_, _, _, _)
(* for convmap in feature_maps, from position j of la_idx. *)
hc_outer(layers, la_idx, j, hypercolumns) ==
    IF j > Len(la_idx) THEN hypercolumns
    ELSE hc_outer(layers, la_idx, j + 1,
                  hc_inner(layers, la_idx[j], 0, hypercolumns))

InitHC ==
    /\ DemoOff
    /\ topk = NoTopk
    /\ \E layers \in [1..NLayers -> [ch : 1..MaxCh, side : FmapSides]],
          la_idx \in SeqsUpTo(0..NLayers, MaxSel) :
          hc = [pc |-> "call", layers |-> layers, la_idx |-> la_idx,
                slices |-> <<>>]

(* extract_hypercolumn(model, la_idx, instance): model.layers[li] raises
   IndexError for an index past the last layer. *)
ExtractHypercolumn ==
    /\ hc.pc = "call"
    /\ IF \E j \in 1..Len(hc.la_idx) : hc.la_idx[j] >= NLayers
       THEN hc' = [hc EXCEPT !.pc = "IndexError"]
       ELSE hc' = [hc EXCEPT !.pc = "done",
                             !.slices = hc_outer(hc.layers, hc.la_idx, 1, <<>>)]
    /\ UNCHANGED <<ml, classifier, dbs, lastMethod, pkls, pc, exitcode, err,
                   act, calls, out, loc, mainpc, args, topk>>

NextHC == ExtractHypercolumn

SpecHC == InitHC /\ [][NextHC]_vars

----------------------------------------------------------------------------
(* Properties of act_test's counting *)

(* j is the 0-based index numpy's argmax returns for v: the first maximum. *)
IsArgmax(v, j) ==
    /\ j \in 0..(Len(v) - 1)
    /\ \A k \in 1..Len(v) : v[k] <= v[j + 1]
    /\ \A k \in 1..j : v[k] < v[j + 1]

(* The maximum of v exceeds t. *)
MaxAbove(v, t) == \E k \in 1..Len(v) : v[k] > t

(* C1: when ml.test returns probabilities, a case is counted as a match only
   if some prediction has its maximum above the threshold and its argmax
   equal to the truth; a prediction above the threshold with another argmax
   makes the case a mismatch; a case whose predictions are all at or below
   the threshold moves neither counter. *)
C1_ProbCounting ==
    [][(pc = "count" /\ pc' = "counted" /\ ~loc.r1.prob_none) =>
        LET prob == loc.r1.prob
            P == 1..Len(prob)
        IN  /\ loc'.match # loc.match =>
                 /\ loc'.match = loc.match + 1
                 /\ \E p \in P : MaxAbove(prob[p], loc.thre)
                                 /\ IsArgmax(prob[p], loc.cat)
            /\ (\E p \in P : MaxAbove(prob[p], loc.thre)
                              /\ ~IsArgmax(prob[p], loc.cat))
                 => loc'.nwrong = loc.nwrong + 1
            /\ (\A p \in P : ~MaxAbove(prob[p], loc.thre))
                 => loc'.match = loc.match /\ loc'.nwrong = loc.nwrong]_vars

(* The second case has a right and a wrong face, both above the threshold
   0.4: it has been counted as a match and as a mismatch. *)
C1_Witness ==
    /\ pc = "counted"
    /\ loc.thre = 4
    /\ loc.cat = 0
    /\ ~loc.r1.prob_none
    /\ loc.r1.prob = <<(<<8, 2>>), (<<2, 8>>)>>
    /\ loc.i = 1
    /\ loc.match = 1
    /\ loc.nwrong = 1

(* C2: after the loop act_test prints recall = match / cases when cases # 0
   and precision = match / (match + nwrong) when match + nwrong # 0, prints
   nothing for a metric whose denominator is zero, and always goes on to the
   'saved to' line and returns; match = 2, nwrong = 0, cases = 4 prints
   0.50 and 1.00. *)
C2_Report ==
    [][(pc = "test" /\ loc.i >= loc.n) =>
        LET m == loc.match
            w == loc.nwrong
            n == loc.n
            recall == IF n # 0
                      THEN <<"[openface_demo] Recall = " \o Fmt2(m, n)>>
                      ELSE <<>>
            precision == IF m + w # 0
                         THEN <<"[openface_demo] Precision = " \o Fmt2(m, m + w)>>
                         ELSE <<>>
            saved == <<"[openface_demo] Images with roi are saved to "
                       \o loc.new_home>>
        IN  /\ out' = out \o recall \o precision \o saved
            /\ err' = ""
            /\ pc' = "idle" \/ (pc' = "exited" /\ exitcode' = 0)
            /\ (m = 2 /\ w = 0 /\ n = 4) =>
                  out' = out \o <<"[openface_demo] Recall = 0.50",
                                  "[openface_demo] Precision = 1.00">> \o saved]_vars

(* Four cases, none above the threshold: recall is printed, precision is not. *)
C2_Witness ==
    /\ pc = "idle"
    /\ act = "test"
    /\ out = <<"[openface_demo] Threshold applied 0.80",
               "[openface_demo] Recall = 0.00",
               "[openface_demo] Images with roi are saved to /www/experiments/20160309">>

(* C6: every matched case, in either branch, is annotated, and every
   annotate call is given the dated directory <base><YYYYMMDD> as its
   destination. *)
C6_AnnotatedToDatedDir ==
    (pc = "counted" /\ loc.found) =>
        /\ Len(loc.patched) > 0
        /\ \A k \in 1..Len(loc.patched) :
              /\ loc.patched[k].path = loc.i
              /\ loc.patched[k].kw = "new_home"
              /\ loc.patched[k].val = loc.new_home

(* C7: when ml.test returns no probabilities, a case with any predicted label
   equal to the truth is counted as a match, whatever the threshold, and the
   mismatch counter never moves. *)
C7_NoProbCounting ==
    [][(pc = "count" /\ pc' = "counted" /\ loc.r1.prob_none) =>
        /\ (\E p \in 1..Len(loc.r1.predicted) : loc.r1.predicted[p] = loc.cat)
              => loc'.match = loc.match + 1
        /\ loc'.nwrong = loc.nwrong]_vars

C7_Witness ==
    /\ pc = "counted"
    /\ loc.thre = 8
    /\ loc.r1.prob_none
    /\ loc.r1.predicted = <<1, 0>>
    /\ loc.cat = 0
    /\ loc.i = 0
    /\ loc.match = 1
    /\ loc.nwrong = 0

----------------------------------------------------------------------------
(* Properties of the fatal checks *)

DbsMissing == dbs.none \/ dbs.files = <<>>

(* C3: with dbs missing (never set, or no file found), act_train, act_test
   and act_pca end the process with a non-zero status before any call into
   the classifier wrapper, whatever the classifier and the model files. *)
C3_NoWrapperCallBeforeDbsExit ==
    (act \in {"train", "test", "pca"} /\ DbsMissing) =>
        /\ pc = "exited"
        /\ exitcode # 0
        /\ calls = <<>>

(* C3 as the code has it: with dbs missing the three actions end the process
   with a non-zero status before any ml.run, ml.test or ml.predict call;
   act_train and act_pca have made no wrapper call at all, while act_test has
   already called ml.read_model when the classifier is set and its model file
   exists. *)
C3_NoTrainTestCallBeforeDbsExit ==
    (act \in {"train", "test", "pca"} /\ DbsMissing) =>
        /\ pc = "exited"
        /\ exitcode # 0
        /\ \A k \in 1..Len(calls) : calls[k].fn \notin {"run", "test", "predict"}
        /\ act \in {"train", "pca"} => calls = <<>>
        /\ act = "test" =>
              \/ calls = <<>>
              \/ /\ Len(calls) = 1
                 /\ calls[1].fn = "read_model"
                 /\ ~ml.none
                 /\ calls[1].model \in pkls

(* act_test stopped by _check_dbs after ml.read_model was called. *)
C3_Witness ==
    /\ pc = "exited"
    /\ act = "test"
    /\ err = "dbs"
    /\ exitcode = 1
    /\ DbsMissing
    /\ Len(calls) = 1

(* C4: set_classifier('RF') binds the RF wrapper and records 'RF',
   set_classifier('Neighbors') binds the Neighbors wrapper and records
   'Neighbors', any other value (also 'rf') binds the SVC wrapper and records
   'SVC'; the two fields are always those of the last call. *)
C4_SetClassifier ==
    lastMethod # None =>
        /\ lastMethod = "RF" => (classifier = "RF" /\ ml.cls = "RFRun")
        /\ lastMethod = "Neighbors" =>
              (classifier = "Neighbors" /\ ml.cls = "NeighborsRun")
        /\ lastMethod \notin {"RF", "Neighbors"} =>
              (classifier = "SVC" /\ ml.cls = "SVMRun")
        /\ ~ml.none

(* set_classifier('rf'), then act_train: the SVC wrapper is the one trained. *)
C4_Witness ==
    /\ lastMethod = "rf"
    /\ classifier = "SVC"
    /\ ml = SVMRun
    /\ act = "train"
    /\ Len(calls) = 1
    /\ calls[1].wrapper = "SVMRun"

(* C5: act_train, act_test and act_predict on a demo whose classifier was
   never set end the process with a non-zero status; act_test and act_predict
   take their model only from <model-root><kind>.pkl for the selected kind and
   end the process with a non-zero status when it does not exist, so every
   ml.test and ml.predict call is made with the model read from that file. *)
C5_ClassifierAndModelRequired ==
    /\ (act \in {"train", "test", "predict"} /\ lastMethod = None) =>
          (pc = "exited" /\ exitcode # 0 /\ calls = <<>>)
    /\ act \in {"test", "predict"} =>
          /\ \A k \in 1..Len(calls) :
                /\ calls[k].fn = "read_model" =>
                      /\ k = 1
                      /\ calls[k].model \in pkls
                      /\ \E root \in Roots :
                            calls[k].model = root \o classifier \o ".pkl"
                /\ calls[k].fn \in {"test", "predict"} =>
                      /\ calls[1].fn = "read_model"
                      /\ calls[k].model = calls[1].model
                      /\ calls[k].wrapper = ml.cls
          /\ err = "model" =>
                /\ pc = "exited"
                /\ exitcode # 0
                /\ calls = <<>>
                /\ \E root \in Roots :
                      /\ (root \o classifier \o ".pkl") \notin pkls
                      /\ out[Len(out)] = "[openface_demo] Error: " \o root
                              \o classifier \o ".pkl does not exist."
          /\ (\A root \in Roots : (root \o classifier \o ".pkl") \notin pkls) =>
                (pc = "exited" /\ exitcode # 0 /\ calls = <<>>)

(* act_predict with the Neighbors model read from models/Neighbors.pkl. *)
C5_Witness ==
    /\ act = "predict"
    /\ pc = "idle"
    /\ classifier = "Neighbors"
    /\ Len(calls) = 2
    /\ calls[1] = [fn |-> "read_model", wrapper |-> "NeighborsRun",
                   model |-> "models/Neighbors.pkl"]
    /\ calls[2].fn = "predict"
    /\ calls[2].model = "models/Neighbors.pkl"

(* C10: an action of {rep, train, test, predict, pca} started through main
   is dispatched only after set_dbs(args.dbpath) and, for train, test and
   predict, after set_classifier(args.classifier); it never ends with the
   missing-classifier error. *)
C10_MainWritesBeforeDispatch ==
    (mainpc \in {"ready", "dispatched"}
     /\ args.action \in {"rep", "train", "test", "predict", "pca"}) =>
        /\ ~dbs.none
        /\ dbs.files = find_files(args.dbpath)
        /\ args.action \in {"train", "test", "predict"} =>
              /\ lastMethod = args.classifier
              /\ ~ml.none
              /\ classifier # None
        /\ err # "classifier"

(* -a train -c rf: trained with the SVC wrapper, status 0. *)
C10_Witness ==
    /\ mainpc = "dispatched"
    /\ args.action = "train"
    /\ args.classifier = "rf"
    /\ pc = "exited"
    /\ exitcode = 0
    /\ calls = <<[fn |-> "run", wrapper |-> "SVMRun", model |-> ""]>>

----------------------------------------------------------------------------
(* Properties of find_topk *)

(* The entries of the result, read in the order order: N of them, on distinct
   valid indices of the vector, each with the probability of its index, and
   no index left out has a larger probability than one taken. *)
TopkEntries(order) ==
    LET K == Len(topk.prob)
        sel == {order[a] : a \in 1..Len(order)}
    IN  /\ Len(order) = topk.ntop
        /\ DOMAIN topk.val = sel
        /\ Cardinality(sel) = topk.ntop
        /\ sel \subseteq 0..(K - 1)
        /\ \A k \in sel : topk.val[k].prob = topk.prob[k + 1]
        /\ \A k \in sel : \A j \in (0..(K - 1)) \ sel :
              topk.prob[j + 1] <= topk.prob[k + 1]

(* The probabilities met along order never increase. *)
Descending(order) ==
    \A a \in 1..(Len(order) - 1) :
        topk.val[order[a]].prob >= topk.val[order[a + 1]].prob

(* C8: for K labels and a vector of length K, find_topk with ntop = N,
   0 <= N <= K, returns exactly N entries on distinct valid indices whose
   probabilities are the N largest of the vector, in descending order. *)
C8_TopkDescending ==
    (topk.pc = "done" /\ topk.ntop <= Len(topk.prob)) =>
        /\ TopkEntries(topk.iter)
        /\ Descending(topk.iter)

(* C8 as the code has it: the N entries are on distinct valid indices and
   hold the N largest probabilities; they are put into the dict in descending
   order of probability, and the dict yields the same keys in the order of
   the interpreter, which need not be descending. *)
C8_TopkLargest ==
    (topk.pc = "done" /\ topk.ntop <= Len(topk.prob)) =>
        /\ TopkEntries(topk.keys)
        /\ Descending(topk.keys)
        /\ topk.keys = topk.top_k
        /\ Len(topk.iter) = Len(topk.keys)
        /\ {topk.iter[a] : a \in 1..Len(topk.iter)}
              = {topk.keys[a] : a \in 1..Len(topk.keys)}

(* The two largest of (2, 1, 3), put in as 2 then 0 and yielded as 0 then 2. *)
C8_Witness ==
    /\ topk.pc = "done"
    /\ topk.prob = <<2, 1, 3>>
    /\ topk.ntop = 2
    /\ topk.keys = <<2, 0>>
    /\ topk.iter = <<0, 2>>
    /\ topk.val[2] = [prob |-> 3, name |-> "n2", cats |-> <<"c2", "a2">>]

----------------------------------------------------------------------------
(* Properties of extract_hypercolumn *)

RECURSIVE ChannelsBefore(_)
(* The channels of the first j entries of la_idx. *)
ChannelsBefore(j) ==
    IF j = 0 THEN 0
    ELSE ChannelsBefore(j - 1) + hc.layers[hc.la_idx[j] + 1].ch

(* Every slice is 224 x 224. *)
AllResized ==
    \A a \in 1..Len(hc.slices) : hc.slices[a].h = 224 /\ hc.slices[a].w = 224

(* C9: the stack holds exactly one 224 x 224 slice per output channel of
   every selected layer, so its first dimension is the channel count over the
   selected layers, and the slices are in (layer index, channel index) order,
   for every list of layer indices. *)
C9_OrderedByLayerIndex ==
    hc.pc = "done" =>
        LET selected == {hc.la_idx[j] : j \in 1..Len(hc.la_idx)}
        IN  /\ AllResized
            /\ \A li \in selected : \A c \in 0..(hc.layers[li + 1].ch - 1) :
                  Cardinality({a \in 1..Len(hc.slices) :
                      hc.slices[a].layer = li /\ hc.slices[a].ch = c}) = 1
            /\ \A a \in 1..Len(hc.slices) : hc.slices[a].layer \in selected
            /\ \A a, b \in 1..Len(hc.slices) :
                  a < b =>
                     \/ hc.slices[a].layer < hc.slices[b].layer
                     \/ /\ hc.slices[a].layer = hc.slices[b].layer
                        /\ hc.slices[a].ch < hc.slices[b].ch

(* C9 as the code has it: the stack holds one 224 x 224 slice per output
   channel of every entry of la_idx (a layer listed twice gives its channels
   twice), its first dimension is the channel count over the entries, and the
   slices are in (position in la_idx, channel index) order, which is (layer
   index, channel index) order when la_idx is strictly increasing. *)
C9_OrderedByPosition ==
    hc.pc = "done" =>
        /\ AllResized
        /\ Len(hc.slices) = ChannelsBefore(Len(hc.la_idx))
        /\ \A j \in 1..Len(hc.la_idx) :
              \A c \in 0..(hc.layers[hc.la_idx[j] + 1].ch - 1) :
                 LET sl == hc.slices[ChannelsBefore(j - 1) + c + 1]
                 IN  sl.layer = hc.la_idx[j] /\ sl.ch = c
        /\ (\A j \in 1..(Len(hc.la_idx) - 1) : hc.la_idx[j] < hc.la_idx[j + 1])
              => \A a, b \in 1..Len(hc.slices) :
                    a < b =>
                       \/ hc.slices[a].layer < hc.slices[b].layer
                       \/ /\ hc.slices[a].layer = hc.slices[b].layer
                          /\ hc.slices[a].ch < hc.slices[b].ch

(* la_idx = [1, 0] over layers of 112 x 112 maps: layer 1's channels first. *)
C9_Witness ==
    /\ hc.pc = "done"
    /\ hc.la_idx = <<1, 0>>
    /\ hc.layers = <<[ch |-> 2, side |-> 112], [ch |-> 1, side |-> 112]>>
    /\ Len(hc.slices) = 3
    /\ hc.slices[1] = [layer |-> 1, ch |-> 0, h |-> 224, w |-> 224]
    /\ hc.slices[3] = [layer |-> 0, ch |-> 1, h |-> 224, w |-> 224]

----------------------------------------------------------------------------
(* Properties of the fields of the demo object *)

(* The classifier kind a wrapper stands for. *)
KindOf(w) ==
    IF w.none THEN None
    ELSE IF w.cls = "RFRun" THEN "RF"
    ELSE IF w.cls = "NeighborsRun" THEN "Neighbors"
    ELSE IF w.cls = "SVMRun" THEN "SVC"
    ELSE "other"

(* C11: after of_init and any calls of set_classifier, set_dbs and the act_*
   actions, the recorded classifier is None, 'RF', 'Neighbors' or 'SVC', ml
   is None exactly when the classifier is None, and the wrapper is of the
   recorded kind; only set_classifier changes ml or classifier and only
   set_dbs changes dbs: every step of an act_* action, read_model included,
   leaves the three fields as they were. *)
C11_FieldsConsistent ==
    /\ [](/\ classifier \in {None, "RF", "Neighbors", "SVC"}
          /\ ml.none <=> classifier = None
          /\ KindOf(ml) = classifier)
    /\ [][/\ (ml' # ml \/ classifier' # classifier) => act' = "set_classifier"
          /\ dbs' # dbs => act' = "set_dbs"
          /\ act' \in {"reps", "train", "pca", "predict", "test"}
                => UNCHANGED <<ml, classifier, dbs>>]_vars

(* set_classifier('rf') and set_dbs were called, act_test read the model and
   is counting its second case: the fields are still SVC, its wrapper and the
   two db files. *)
C11_Witness ==
    /\ lastMethod = "rf"
    /\ classifier = "SVC"
    /\ ml = SVMRun
    /\ dbs = [none |-> FALSE, files |-> <<"a.json", "b.json">>]
    /\ act = "test"
    /\ pc = "counted"
    /\ loc.i = 1
    /\ Len(calls) = 3

----------------------------------------------------------------------------
(* Bounds on act_test's counters *)

(* The lines a metric in [0, 1] can print with '%.2f': 0.00 to 1.00. *)
UnitMetricLines(label) ==
    {"[openface_demo] " \o label \o " = " \o Fmt2(h, 100) : h \in 0..100}

(* C12: a case moves match by at most one and nwrong by at most one, however
   many predictions it has, so both counters stay between 0 and the number
   of cases taken so far, hence between 0 and the total at the end, and a
   recall or precision that is printed is a value in [0, 1]; the witness is
   a case of several predictions counted both as a match and as a mismatch. *)
C12_CountersBounded ==
    /\ [](pc \in {"test", "count", "counted"} =>
            LET taken == IF pc = "counted" THEN loc.i + 1 ELSE loc.i
            IN  /\ taken <= loc.n
                /\ loc.match \in 0..taken
                /\ loc.nwrong \in 0..taken)
    /\ [][/\ (pc = "count" /\ pc' = "counted") =>
                /\ loc'.match \in {loc.match, loc.match + 1}
                /\ loc'.nwrong \in {loc.nwrong, loc.nwrong + 1}
          /\ (pc = "test" /\ loc.i >= loc.n) =>
                /\ loc.match \in 0..loc.n
                /\ loc.nwrong \in 0..loc.n
                /\ loc.n # 0 => loc.match <= loc.n
                /\ loc.match + loc.nwrong # 0
                      => loc.match <= loc.match + loc.nwrong
                /\ \A k \in (Len(out) + 1)..(Len(out') - 1) :
                      out'[k] \in UnitMetricLines("Recall")
                                  \cup UnitMetricLines("Precision")]_vars

(* The first case has two faces above the threshold 0.4, one with the right
   argmax and one with the wrong one: it is both a match and a mismatch, and
   each counter moved by one. *)
C12_Witness ==
    /\ pc = "counted"
    /\ loc.i = 0
    /\ loc.thre = 4
    /\ loc.cat = 1
    /\ ~loc.r1.prob_none
    /\ Len(loc.r1.prob) = 2
    /\ loc.found
    /\ loc.mis_match
    /\ loc.match = 1
    /\ loc.nwrong = 1

====
